---- MODULE Spec2Model ----
(***************************************************************************)
(* Change-log based table reconciliation of AthenaService                  *)
(* (src/app/services/athena_service.py): the struct codec, the positional  *)
(* differ, the append-only log store and the reconciler.                   *)
(*                                                                         *)
(* Text is modelled as a sequence of one-character strings, so that the    *)
(* escaping, stripping and scanning of the code are computed character by  *)
(* character.  A Python value is a record [t, s]: t is its type ("none",   *)
(* "str", "int") and s the characters of the string or of the number.      *)
(* A mapping (dict) is a function whose domain is a set of texts; a dict's *)
(* insertion order is kept where the code depends on it.                   *)
(***************************************************************************)
EXTENDS Integers, Sequences, FiniteSets, TLC

(***************************************************************************)
(* Text helpers: Python's str methods used by the code.                    *)
(***************************************************************************)
Whitespace == {" "}

WordChars == {"a", "b", "c", "d", "e", "f", "g", "h", "i", "j", "k", "l", "m",
              "n", "o", "p", "q", "r", "s", "t", "u", "v", "w", "x", "y", "z",
              "A", "B", "C", "D", "E", "F", "G", "H", "I", "J", "K", "L", "M",
              "N", "O", "P", "Q", "R", "S", "T", "U", "V", "W", "X", "Y", "Z",
              "0", "1", "2", "3", "4", "5", "6", "7", "8", "9", "_"}

Min(a, b) == IF a <= b THEN a ELSE b

RECURSIVE Replace(_, _, _)
Replace(s, c, r) ==
    IF s = <<>> THEN <<>>
    ELSE (IF Head(s) = c THEN r ELSE <<Head(s)>>) \o Replace(Tail(s), c, r)

RECURSIVE LStripSet(_, _)
LStripSet(s, cs) ==
    IF s # <<>> /\ Head(s) \in cs THEN LStripSet(Tail(s), cs) ELSE s

RECURSIVE RStripSet(_, _)
RStripSet(s, cs) ==
    IF s # <<>> /\ s[Len(s)] \in cs THEN RStripSet(SubSeq(s, 1, Len(s) - 1), cs) ELSE s

Strip(s) == RStripSet(LStripSet(s, Whitespace), Whitespace)

StripChar(s, c) == RStripSet(LStripSet(s, {c}), {c})

RECURSIVE Join(_, _)
Join(parts, sep) ==
    IF parts = <<>> THEN <<>>
    ELSE IF Len(parts) = 1 THEN parts[1]
    ELSE parts[1] \o sep \o Join(Tail(parts), sep)

StartsWith(s, c) == s # <<>> /\ s[1] = c

EndsWith(s, c) == s # <<>> /\ s[Len(s)] = c

(* str.lower() on the letters the model's column names use *)
LowerChar(c) == CASE c = "N" -> "n" [] c = "K" -> "k" [] OTHER -> c

Lower(s) == [i \in 1..Len(s) |-> LowerChar(s[i])]

(* `sub in s` for texts *)
Contains(s, sub) ==
    \E i \in 1..(Len(s) - Len(sub) + 1) : SubSeq(s, i, i + Len(sub) - 1) = sub

(* str(i) for the small non-negative integers the model reaches *)
Digits == <<"0", "1", "2", "3", "4", "5", "6", "7", "8", "9">>

RECURSIVE IntToStr(_)
IntToStr(n) ==
    IF n < 10 THEN <<Digits[n + 1]>> ELSE IntToStr(n \div 10) \o <<Digits[(n % 10) + 1]>>

(***************************************************************************)
(* Python values.                                                          *)
(***************************************************************************)
None == [t |-> "none", s |-> <<>>]

StrV(s) == [t |-> "str", s |-> s]

IntV(n) == [t |-> "int", s |-> IntToStr(n)]

(* str(v) *)
Str(v) == IF v.t = "none" THEN <<"N", "o", "n", "e">> ELSE v.s

(* dict.get(k, default) *)
Get(d, k, default) == IF k \in DOMAIN d THEN d[k] ELSE default

(***************************************************************************)
(* StructCodec.                                                            *)
(***************************************************************************)
F_id == <<"i", "d">>
F_first_name == <<"f", "i", "r", "s", "t", "_", "n", "a", "m", "e">>
F_last_name == <<"l", "a", "s", "t", "_", "n", "a", "m", "e">>
F_email == <<"e", "m", "a", "i", "l">>
F_gender == <<"g", "e", "n", "d", "e", "r">>
F_ip_address == <<"i", "p", "_", "a", "d", "d", "r", "e", "s", "s">>
F_is_active == <<"i", "s", "_", "a", "c", "t", "i", "v", "e">>
F_data == <<"d", "a", "t", "a">>

(* struct_fields / known_fields: the fixed 8-field schema, in slot order *)
StructFields ==
    <<F_id, F_first_name, F_last_name, F_email, F_gender, F_ip_address, F_is_active, F_data>>

FieldSet == {StructFields[i] : i \in 1..Len(StructFields)}

(* json.dumps(row, default=str) followed by str(): a JSON text is modelled  *)
(* by what json.loads makes of it                                          *)
JsonDumps(row) == [kind |-> "object", obj |-> row]

JsonEmptyText == [kind |-> "empty", obj |-> <<>>]

JsonInvalid == [kind |-> "invalid", obj |-> <<>>]

JsonNonObject == [kind |-> "nonobject", obj |-> <<>>]

(* one slot of the encoding: str(value) with "," and "|" escaped *)
EscapeValue(v) == Replace(Replace(Str(v), ",", <<"\\", ",">>), "|", <<"\\", "|">>)

(* _convert_json_to_struct: [raised, val] *)
ConvertJsonToStruct(json) ==
    IF json.kind = "empty" \/ (json.kind = "object" /\ json.obj.cols = <<>>)
    THEN [raised |-> FALSE, val |-> <<>>]
    ELSE IF json.kind = "invalid" THEN [raised |-> FALSE, val |-> <<>>]
    ELSE IF json.kind = "nonobject" THEN [raised |-> TRUE, val |-> <<>>]
    ELSE [raised |-> FALSE,
          val |-> Join([i \in 1..Len(StructFields) |->
                           EscapeValue(Get(json.obj.val, StructFields[i], StrV(<<>>)))],
                       <<",">>)]

(* a dict as the codec returns it: the keys in insertion order and the    *)
(* mapping                                                                 *)
Dict(cols, val) == [cols |-> cols, val |-> val]

EmptyDict == Dict(<<>>, <<>>)

(* the scan of _parse_comma_separated_struct: split on unescaped commas,   *)
(* a backslash makes the next character literal and is itself dropped      *)
RECURSIVE SplitScan(_, _, _, _, _)
SplitScan(s, i, values, current, escaped) ==
    IF i > Len(s) THEN (IF current # <<>> THEN Append(values, current) ELSE values)
    ELSE IF escaped THEN SplitScan(s, i + 1, values, Append(current, s[i]), FALSE)
    ELSE IF s[i] = "\\" THEN SplitScan(s, i + 1, values, current, TRUE)
    ELSE IF s[i] = "," THEN SplitScan(s, i + 1, Append(values, current), <<>>, FALSE)
    ELSE SplitScan(s, i + 1, values, Append(current, s[i]), FALSE)

RECURSIVE ReplacePair(_, _, _, _)
ReplacePair(s, c1, c2, r) ==
    IF Len(s) < 2 THEN s
    ELSE IF s[1] = c1 /\ s[2] = c2 THEN r \o ReplacePair(SubSeq(s, 3, Len(s)), c1, c2, r)
    ELSE <<Head(s)>> \o ReplacePair(Tail(s), c1, c2, r)

(* value.replace('\\,', ',').replace('\\|', '|') *)
Unescape(s) == ReplacePair(ReplacePair(s, "\\", ",", <<",">>), "\\", "|", <<"|">>)

SlotOf(f) == CHOOSE i \in 1..Len(StructFields) : StructFields[i] = f

(* the values zipped against the schema; missing positions are empty *)
ZipFields(values) ==
    Dict(StructFields,
         [f \in FieldSet |-> IF SlotOf(f) <= Len(values) THEN Unescape(values[SlotOf(f)]) ELSE <<>>])

(* _parse_comma_separated_struct *)
ParseCommaSeparatedStruct(s) == ZipFields(SplitScan(s, 1, <<>>, <<>>, FALSE))

(* end of the run of characters of class cs that starts at position p *)
RECURSIVE RunEnd(_, _, _)
RunEnd(s, p, cs) == IF p <= Len(s) /\ s[p] \in cs THEN RunEnd(s, p + 1, cs) ELSE p

(* \w+= from position e2, the word ending before e3 *)
WordThenEquals(s, e2, e3) == e3 > e2 /\ e3 <= Len(s) /\ s[e3] = "="

SpacesThenWord(s, e, e2) == e2 > e /\ WordThenEquals(s, e2, RunEnd(s, e2, WordChars))

(* the lookahead \s+\w+= at position e *)
Boundary(s, e) == SpacesThenWord(s, e, RunEnd(s, e, Whitespace))

(* ([^=]*?)(?=\s+\w+=|$) from position e: the end of the shortest value,   *)
(* 0 when an "=" comes before any boundary                                 *)
RECURSIVE ValueEnd(_, _)
ValueEnd(s, e) ==
    IF e > Len(s) THEN e
    ELSE IF Boundary(s, e) THEN e
    ELSE IF s[e] = "=" THEN 0
    ELSE ValueEnd(s, e + 1)

MatchValue(s, p, q, e) ==
    IF e = 0 THEN <<>> ELSE <<SubSeq(s, p, q - 1), SubSeq(s, q + 1, e - 1), e>>

MatchKey(s, p, q) ==
    IF q > p /\ q <= Len(s) /\ s[q] = "=" THEN MatchValue(s, p, q, ValueEnd(s, q + 1)) ELSE <<>>

(* (\w+)=([^=]*?)(?=\s+\w+=|$) tried at position p: <<key, value, end>> or <<>> *)
MatchAt(s, p) == MatchKey(s, p, RunEnd(s, p, WordChars))

(* re.findall: the non-overlapping matches from left to right *)
RECURSIVE FindAll(_, _)
RECURSIVE FindNext(_, _, _)
FindNext(s, p, m) ==
    IF m = <<>> THEN FindAll(s, p + 1) ELSE <<<<m[1], m[2]>>>> \o FindAll(s, m[3])

FindAll(s, p) == IF p > Len(s) THEN <<>> ELSE FindNext(s, p, MatchAt(s, p))

RECURSIVE Dedup(_, _, _)
Dedup(keys, i, seen) ==
    IF i > Len(keys) THEN <<>>
    ELSE IF keys[i] \in seen THEN Dedup(keys, i + 1, seen)
    ELSE <<keys[i]>> \o Dedup(keys, i + 1, seen \cup {keys[i]})

(* value.strip().strip(',').strip() *)
CleanValue(v) == Strip(StripChar(Strip(v), ","))

LastMatch(matches, k) ==
    CHOOSE i \in 1..Len(matches) :
        /\ matches[i][1] = k
        /\ \A j \in (i + 1)..Len(matches) : matches[j][1] # k

(* result[key] = cleaned_value for every match, then the known fields that *)
(* are missing filled with ''                                              *)
MatchesToDict(matches) ==
    LET keys == {matches[i][1] : i \in 1..Len(matches)}
    IN Dict(Dedup([i \in 1..Len(matches) |-> matches[i][1]], 1, {})
                \o SelectSeq(StructFields, LAMBDA f : f \notin keys),
            [k \in keys \cup FieldSet |->
                IF k \in keys THEN CleanValue(matches[LastMatch(matches, k)][2]) ELSE <<>>])

ParseContent(content) ==
    IF content = <<>> THEN EmptyDict ELSE MatchesToDict(FindAll(content, 1))

Unbrace(stripped) == Strip(SubSeq(stripped, 2, Len(stripped) - 1))

(* _parse_athena_struct_format: {key=value key2=value2} *)
ParseAthenaStructFormat(s) == ParseContent(Unbrace(Strip(s)))

(* a decoder that does not know 'null' *)
DegenerateStructsNoNull == {<<",">>, <<"{", "}">>, <<>>}

(* the inputs _convert_struct_to_dict treats as "no struct data" *)
DegenerateStructs == {<<",">>, <<"{", "}">>, <<>>, <<"n", "u", "l", "l">>}

DecodeCleaned(cleaned) ==
    IF StartsWith(cleaned, "{") /\ EndsWith(cleaned, "}")
    THEN ParseAthenaStructFormat(cleaned)
    ELSE ParseCommaSeparatedStruct(cleaned)

(* _convert_struct_to_dict *)
ConvertStructToDict(s) ==
    IF s = <<>> \/ Strip(s) \in DegenerateStructs THEN EmptyDict
    ELSE DecodeCleaned(Strip(StripChar(Strip(s), ",")))

(***************************************************************************)
(* Rows.  A dict row is [kind |-> "dict", cols, val]: cols is the          *)
(* insertion order of its keys and val the mapping.  A row that is not a   *)
(* mapping (a list, say) has kind "other".                                 *)
(***************************************************************************)
Row(cols, val) == [kind |-> "dict", cols |-> cols, val |-> val]

NotADict == [kind |-> "other", cols |-> <<>>, val |-> <<>>]

IsDict(row) == row.kind = "dict"

(***************************************************************************)
(* ChangeLogDiffer: _generate_change_logs.                                 *)
(***************************************************************************)
IdKeywords == {<<"i", "d">>, <<"k", "e", "y">>, <<"p", "k">>}

IsIdLike(col) == \E kw \in IdKeywords : Contains(Lower(col), kw)

NoColumn == [some |-> FALSE, col |-> <<>>]

(* the id column of a dict row: first id-like column, else the first column *)
IdColumnOf(row) ==
    LET idLike == {i \in 1..Len(row.cols) : IsIdLike(row.cols[i])}
    IN IF idLike # {} THEN [some |-> TRUE, col |-> row.cols[CHOOSE i \in idLike : \A j \in idLike : i <= j]]
       ELSE IF row.cols # <<>> THEN [some |-> TRUE, col |-> row.cols[1]]
       ELSE NoColumn

(* `if id_column`: None and the empty name are both falsy *)
Truthy(idc) == idc.some /\ idc.col # <<>>

(* normalize_row: {k: str(v) if v is not None else ''} *)
NormalizeRow(row) == [k \in DOMAIN row.val |-> IF row.val[k].t = "none" THEN <<>> ELSE Str(row.val[k])]

(* an identifier that is always the position *)
DifferRowIdPositional(idc, editedRow, i) == IntToStr(i)

(* str(row_id), row_id = edited_row.get(id_column, key) if id_column else key *)
DifferRowId(idc, editedRow, i) ==
    IF Truthy(idc) /\ idc.col \in DOMAIN editedRow.val THEN Str(editedRow.val[idc.col])
    ELSE IntToStr(i)

OP_UPDATE == <<"U", "P", "D", "A", "T", "E">>
OP_INSERT == <<"I", "N", "S", "E", "R", "T">>
OP_DELETE == <<"D", "E", "L", "E", "T", "E">>

ChangeReason == <<"e", "d", "i", "t">>

(* hashlib.md5(text.encode()).hexdigest(): the digest stands for the text  *)
(* it was computed from                                                    *)
Md5(text) == [md5 |-> text]

(* md5 of f"{database}_{table_name}_{row_id}_{timestamp}" *)
ChangeId(database, table, rowId, ts) == Md5(Join(<<database, table, rowId, ts>>, <<"_">>))

(* a differ that stamps every record with its own time *)
ChangeRecordRowStamp(database, table, idc, originalRow, editedRow, i, user, ts, sid) ==
    [id |-> ChangeId(database, table, DifferRowId(idc, editedRow, i), ts \o IntToStr(i)),
     table_name |-> table,
     database_name |-> database,
     operation |-> OP_UPDATE,
     row_identifier |-> DifferRowId(idc, editedRow, i),
     before |-> JsonDumps(originalRow),
     after |-> JsonDumps(editedRow),
     updated_by |-> user,
     updated_at |-> ts \o IntToStr(i),
     session_id |-> sid,
     change_reason |-> ChangeReason]

(* the change record of one differing position; i is the 0-based position *)
ChangeRecord(database, table, idc, originalRow, editedRow, i, user, ts, sid) ==
    [id |-> ChangeId(database, table, DifferRowId(idc, editedRow, i), ts),
     table_name |-> table,
     database_name |-> database,
     operation |-> OP_UPDATE,
     row_identifier |-> DifferRowId(idc, editedRow, i),
     before |-> JsonDumps(originalRow),
     after |-> JsonDumps(editedRow),
     updated_by |-> user,
     updated_at |-> ts,
     session_id |-> sid,
     change_reason |-> ChangeReason]

(* a comparison of the rows as they are, without normalize_row *)
RowChangedRaw(originalRow, editedRow) == originalRow.val # editedRow.val

(* whether position i (1-based) of the truncated snapshots yields a record *)
RowChanged(originalRow, editedRow) == NormalizeRow(originalRow) # NormalizeRow(editedRow)

RECURSIVE DiffFrom(_, _, _, _, _, _, _, _, _)
DiffFrom(database, table, idc, original, edited, i, user, ts, sid) ==
    IF i > Min(Len(original), Len(edited)) THEN <<>>
    ELSE (IF RowChanged(original[i], edited[i])
          THEN <<ChangeRecord(database, table, idc, original[i], edited[i], i - 1, user, ts, sid)>>
          ELSE <<>>)
         \o DiffFrom(database, table, idc, original, edited, i + 1, user, ts, sid)

(* a truncation in place: del data[max_size:] *)
CallerListTruncated(data, maxSize) == SubSeq(data, 1, Min(maxSize, Len(data)))

(* the caller's list after original_data = original_data[:max_size]: the   *)
(* slice is a new list bound to the local name, the caller's list is as it *)
(* was                                                                     *)
CallerList(data, maxSize) == data

(* a differ that refuses snapshots of different lengths *)
GenerateChangeLogsStrict(database, table, original, edited, user, ts, sid) ==
    IF Len(original) # Len(edited) THEN [raised |-> TRUE, changes |-> <<>>]
    ELSE [raised |-> FALSE,
          changes |-> DiffFrom(database, table,
                               IF original # <<>> THEN IdColumnOf(original[1]) ELSE NoColumn,
                               original, edited, 1, user, ts, sid)]

(* _generate_change_logs: [raised, changes].  It has no try/except: a row   *)
(* that is not a mapping raises at original_data[0].keys() or in           *)
(* normalize_row, and the exception leaves the function                    *)
GenerateChangeLogs(database, table, original, edited, user, ts, sid) ==
    LET n == Min(Len(original), Len(edited))
        bad == \/ (original # <<>> /\ ~IsDict(original[1]))
               \/ \E i \in 1..n : ~IsDict(original[i]) \/ ~IsDict(edited[i])
    IN IF bad THEN [raised |-> TRUE, changes |-> <<>>]
       ELSE [raised |-> FALSE,
             changes |-> DiffFrom(database, table,
                                  IF original # <<>> THEN IdColumnOf(original[1]) ELSE NoColumn,
                                  original, edited, 1, user, ts, sid)]
(***************************************************************************)
(* TableReconciler: _apply_changes_from_log.                               *)
(***************************************************************************)
(* the key of a row in result_dict; i is the 0-based position *)
IndexKey(idc, row, i) ==
    IF Truthy(idc) /\ idc.col \in DOMAIN row.val THEN Str(row.val[idc.col]) ELSE IntToStr(i)

(* result_dict: an insertion-ordered dict, [keys, rows] *)
EmptyIndex == [keys |-> <<>>, rows |-> <<>>]

IndexPut(index, key, row) ==
    [keys |-> IF key \in DOMAIN index.rows THEN index.keys ELSE Append(index.keys, key),
     rows |-> [k \in DOMAIN index.rows \cup {key} |-> IF k = key THEN row ELSE index.rows[k]]]

IndexDel(index, key) ==
    [keys |-> SelectSeq(index.keys, LAMBDA k : k # key),
     rows |-> [k \in DOMAIN index.rows \ {key} |-> index.rows[k]]]

RECURSIVE BuildIndex(_, _, _, _)
BuildIndex(idc, rows, i, index) ==
    IF i > Len(rows) THEN index
    ELSE BuildIndex(idc, rows, i + 1, IndexPut(index, IndexKey(idc, rows[i], i - 1), rows[i]))

(* an index that holds the caller's rows themselves: the key of each row,   *)
(* mapped to the position of the row the key ends on                       *)
SharedRowsNoCopy(idc, original) ==
    [k \in {IndexKey(idc, original[i], i - 1) : i \in 1..Len(original)} |->
        CHOOSE i \in 1..Len(original) :
            /\ IndexKey(idc, original[i], i - 1) = k
            /\ \A j \in (i + 1)..Len(original) : IndexKey(idc, original[j], j - 1) # k]

(* the rows of result_dict that are rows of the caller, by key:            *)
(* result_data = [row.copy() for row in original_data], so none is         *)
SharedRows(idc, original) == [k \in {} |-> 0]

(* list(result_dict.values()) *)
IndexValues(index) == [i \in 1..Len(index.keys) |-> index.rows[index.keys[i]]]

(* log_row.get(column, '') *)
Cell(logRow, column) == IF column \in DOMAIN logRow THEN logRow[column] ELSE <<>>

(* a merge that lets empty decoded values overwrite *)
MergeAfterAll(row, after) ==
    Row(row.cols,
        [k \in DOMAIN row.val |-> IF k \in DOMAIN after THEN StrV(after[k]) ELSE row.val[k]])

(* result_dict[row_identifier].update(filtered_values) *)
MergeAfter(row, after) ==
    Row(row.cols,
        [k \in DOMAIN row.val |->
            IF k \in DOMAIN after /\ after[k] # <<>> THEN StrV(after[k]) ELSE row.val[k]])

(* the dict a decoded struct becomes as a row: its values are strings *)
DictRow(d) == Row(d.cols, [k \in DOMAIN d.val |-> StrV(d.val[k])])

(* the operation of one log row on result_dict *)
ApplyOperation(index, operation, rid, after) ==
    IF operation = <<>> \/ rid = <<>> THEN index
    ELSE IF operation = OP_UPDATE
    THEN (IF rid \in DOMAIN index.rows /\ after.cols # <<>>
          THEN IndexPut(index, rid, MergeAfter(index.rows[rid], after.val))
          ELSE index)
    ELSE IF operation = OP_INSERT
    THEN (IF rid \notin DOMAIN index.rows /\ after.cols # <<>>
          THEN IndexPut(index, rid, DictRow(after))
          ELSE index)
    ELSE IF operation = OP_DELETE
    THEN (IF rid \in DOMAIN index.rows THEN IndexDel(index, rid) ELSE index)
    ELSE index

(* one iteration of the loop over log_data *)
ApplyLogRow(index, logRow) ==
    ApplyOperation(index, Cell(logRow, "operation"), Cell(logRow, "row_identifier"),
                   ConvertStructToDict(Cell(logRow, "after")))

(* what one iteration does to the caller's snapshot: an UPDATE writes into  *)
(* the row object of the index, a DELETE takes the object out of the index *)
CallerStep(heap, logRow, index, next) ==
    IF Cell(logRow, "operation") = <<>> \/ Cell(logRow, "row_identifier") = <<>> THEN heap
    ELSE IF Cell(logRow, "row_identifier") \notin DOMAIN heap.shared THEN heap
    ELSE IF Cell(logRow, "operation") = OP_UPDATE
    THEN [caller |-> [heap.caller EXCEPT ![heap.shared[Cell(logRow, "row_identifier")]] =
                                            next.rows[Cell(logRow, "row_identifier")]],
          shared |-> heap.shared]
    ELSE IF Cell(logRow, "operation") = OP_DELETE
    THEN [caller |-> heap.caller,
          shared |-> [k \in DOMAIN heap.shared \ {Cell(logRow, "row_identifier")} |-> heap.shared[k]]]
    ELSE heap

RECURSIVE FoldLog(_, _, _)
FoldLog(index, log, i) ==
    IF i > Len(log) THEN index ELSE FoldLog(ApplyLogRow(index, log[i]), log, i + 1)

(* the index _apply_changes_from_log starts from: [raised, index].        *)
(* list(result_data[0].keys())[0] raises on a first row without columns    *)
InitialIndex(original) ==
    IF original # <<>> /\ (~IsDict(original[1]) \/ (original[1].cols = <<>>))
    THEN [raised |-> TRUE, index |-> EmptyIndex]
    ELSE IF \E i \in 1..Len(original) : ~IsDict(original[i])
    THEN [raised |-> TRUE, index |-> EmptyIndex]
    ELSE [raised |-> FALSE,
          index |-> BuildIndex(IF original # <<>> THEN IdColumnOf(original[1]) ELSE NoColumn,
                               original, 1, EmptyIndex)]

FoldFrom(start, log) ==
    IF start.raised THEN [raised |-> TRUE, rows |-> <<>>]
    ELSE [raised |-> FALSE, rows |-> IndexValues(FoldLog(start.index, log, 1))]

(* _apply_changes_from_log: [raised, rows] *)
ApplyChangesFromLog(original, log) == FoldFrom(InitialIndex(original), log)

(***************************************************************************)
(* ChangeLogStore: the blobs under data-changes-log/<database>/ and the    *)
(* log table of the catalog.  The clock counts half seconds: updated_at    *)
(* has sub-second resolution, the blob key is cut to the second.           *)
(***************************************************************************)
LogColumns == <<"id", "table_name", "database_name", "operation", "row_identifier",
                "before", "after", "updated_by", "updated_at", "session_id", "change_reason">>

TwoDigits(n) == <<Digits[(n \div 10) + 1], Digits[(n % 10) + 1]>>

(* datetime.now().isoformat() *)
IsoFormat(t) == TwoDigits(t)

(* datetime.now().strftime("%Y%m%d_%H%M%S") *)
SecondStamp(t) == TwoDigits(t \div 2)

(* f"data-changes-log/{database}/changes_{timestamp}.csv" *)
BlobKey(database, t) == <<database, SecondStamp(t)>>

EscapePipe(s) == Replace(s, "|", <<"\\", "|">>)

(* one line of the blob; the id is a hex digest, which has no pipe *)
PersistLine(change) ==
    [id |-> change.id,
     table_name |-> EscapePipe(change.table_name),
     database_name |-> EscapePipe(change.database_name),
     operation |-> EscapePipe(change.operation),
     row_identifier |-> EscapePipe(change.row_identifier),
     before |-> ConvertJsonToStruct(change.before).val,
     after |-> ConvertJsonToStruct(change.after).val,
     updated_by |-> EscapePipe(change.updated_by),
     updated_at |-> EscapePipe(change.updated_at),
     session_id |-> EscapePipe(change.session_id),
     change_reason |-> EscapePipe(change.change_reason)]

(* _save_changes_to_s3: [ok, blobs]; putOk is the outcome of put_object *)
SaveChangesToS3(store, database, changes, t, putOk) ==
    IF changes = <<>> THEN [ok |-> FALSE, blobs |-> store]
    ELSE IF \E i \in 1..Len(changes) :
                ConvertJsonToStruct(changes[i].before).raised
                \/ ConvertJsonToStruct(changes[i].after).raised
    THEN [ok |-> FALSE, blobs |-> store]
    ELSE IF ~putOk THEN [ok |-> FALSE, blobs |-> store]
    ELSE [ok |-> TRUE,
          blobs |-> [k \in DOMAIN store \cup {BlobKey(database, t)} |->
                        IF k = BlobKey(database, t)
                        THEN [header |-> LogColumns,
                              lines |-> [i \in 1..Len(changes) |-> PersistLine(changes[i])]]
                        ELSE store[k]]]

(* create_changes_log_table: [ok, table, ddl]; listOk is the outcome of    *)
(* list_table_metadata (get_tables returns [] when it fails), ddlOk that   *)
(* of the CREATE statement, which the catalog refuses for a table that     *)
(* exists                                                                  *)
CreateChangesLogTable(table, listOk, ddlOk) ==
    IF listOk /\ table THEN [ok |-> TRUE, table |-> table, ddl |-> FALSE]
    ELSE IF ddlOk /\ ~table THEN [ok |-> TRUE, table |-> TRUE, ddl |-> TRUE]
    ELSE [ok |-> FALSE, table |-> table, ddl |-> TRUE]

SaveResult(ok, msg, log, store) ==
    [ok |-> ok, msg |-> msg, table |-> log.table, blobs |-> store, ddl |-> log.ddl]

(* the outcome of _save_changes_to_s3 as save_table_changes reports it *)
(* a save that reports success whatever put_object did *)
SavePutOptimistic(log, store, put) == SaveResult(TRUE, "saved", log, put.blobs)

SavePut(log, store, put) ==
    IF put.ok THEN SaveResult(TRUE, "saved", log, put.blobs)
    ELSE SaveResult(FALSE, "s3", log, store)

(* the try block of save_table_changes once the diff is known *)
SaveDiff(log, store, database, diff, t, putOk) ==
    IF diff.raised THEN SaveResult(FALSE, "exception", log, store)
    ELSE IF diff.changes = <<>> THEN SaveResult(TRUE, "no_changes", log, store)
    ELSE SavePut(log, store, SaveChangesToS3(store, database, diff.changes, t, putOk))

(* a save that goes on when the log table could not be ensured *)
SaveWithLogUnchecked(log, store, database, tableName, original, edited, user, t, sid, putOk) ==
    SaveDiff(log, store, database,
             GenerateChangeLogs(database, tableName, original, edited, user, IsoFormat(t), sid),
             t, putOk)

SaveWithLog(log, store, database, tableName, original, edited, user, t, sid, putOk) ==
    IF ~log.ok THEN SaveResult(FALSE, "log_table", log, store)
    ELSE SaveDiff(log, store, database,
                  GenerateChangeLogs(database, tableName, original, edited, user, IsoFormat(t), sid),
                  t, putOk)

(* save_table_changes: [ok, msg, table, blobs, ddl] *)
SaveTableChanges(table, store, database, tableName, original, edited, user, t, sid, listOk, ddlOk, putOk) ==
    SaveWithLog(CreateChangesLogTable(table, listOk, ddlOk), store, database, tableName,
                original, edited, user, t, sid, putOk)

(* list_objects_v2 and delete_objects: the blobs under the database's prefix go *)
CleanupBlobs(store, database) ==
    [k \in {k \in DOMAIN store : k[1] # database} |-> store[k]]

(* a recreate that gives up when the cleanup fails *)
RecreateWithStrict(create, store, database, cleanupOk) ==
    [ok |-> create.ok /\ cleanupOk, msg |-> "create", table |-> create.table, ddl |-> create.ddl,
     blobs |-> IF cleanupOk THEN CleanupBlobs(store, database) ELSE store]

RecreateWith(create, store, database, cleanupOk) ==
    [ok |-> create.ok, msg |-> "create", table |-> create.table, ddl |-> create.ddl,
     blobs |-> IF cleanupOk THEN CleanupBlobs(store, database) ELSE store]

(* recreate_changes_log_table: [ok, msg, table, ddl, blobs]; ddl says that *)
(* the CREATE statement was issued; a failure of the cleanup is only       *)
(* logged                                                                  *)
RecreateChangesLogTable(table, store, database, dropOk, cleanupOk, listOk, ddlOk) ==
    IF ~dropOk THEN [ok |-> FALSE, msg |-> "drop", table |-> table, ddl |-> FALSE, blobs |-> store]
    ELSE RecreateWith(CreateChangesLogTable(FALSE, listOk, ddlOk), store, database, cleanupOk)

(***************************************************************************)
(* The log query of get_table_with_changes and the handler itself.         *)
(***************************************************************************)
LogLimit == 100

RequiredColumns == {"operation", "row_identifier", "before", "after"}

DigitRank(c) == CHOOSE i \in 1..Len(Digits) : Digits[i] = c

(* string order of two timestamps of the same width *)
RECURSIVE TextLess(_, _)
TextLess(a, b) ==
    IF a = <<>> \/ b = <<>> THEN a = <<>> /\ b # <<>>
    ELSE IF Head(a) = Head(b) THEN TextLess(Tail(a), Tail(b))
    ELSE DigitRank(Head(a)) < DigitRank(Head(b))

(* the lines of the table: every line of every blob under the prefix,      *)
(* WHERE table_name = table AND database_name = database                   *)
LogLineRefs(store, database, table) ==
    {ref \in UNION {{<<k, i>> : i \in 1..Len(store[k].lines)} : k \in DOMAIN store} :
        /\ ref[1][1] = database
        /\ store[ref[1]].lines[ref[2]].table_name = table
        /\ store[ref[1]].lines[ref[2]].database_name = database}

(* ORDER BY updated_at DESC: every order the executor may return, rows of  *)
(* equal updated_at in any order                                           *)
RECURSIVE DescOrders(_, _)
DescOrders(store, refs) ==
    IF refs = {} THEN {<<>>}
    ELSE LET at(r) == store[r[1]].lines[r[2]].updated_at
             latest == {r \in refs : \A q \in refs : ~TextLess(at(r), at(q))}
         IN UNION {{<<r>> \o rest : rest \in DescOrders(store, refs \ {r})} : r \in latest}

(* the rows get_query_results makes of the ordered lines: LIMIT 100, and   *)
(* only the columns the table's header has                                 *)
LogRows(store, order, header) ==
    [i \in 1..Min(Len(order), LogLimit) |->
        [c \in header |-> store[order[i][1]].lines[order[i][2]][c]]]

NoneResult == [none |-> TRUE, rows |-> <<>>]

(* a reader that gives up when the fold raises *)
AppliedOrNone(original, applied) ==
    IF applied.raised THEN NoneResult
    ELSE [none |-> FALSE, rows |-> applied.rows]

(* except Exception: return original_data *)
Applied(original, applied) ==
    IF applied.raised THEN [none |-> FALSE, rows |-> original]
    ELSE [none |-> FALSE, rows |-> applied.rows]

Rows(rows) == [none |-> FALSE, rows |-> rows]

(* a reader that reports a missing log table as a failure *)
GetTableWithChangesStrict(original, table, logData, previewOk, listOk, queryOk, resultsOk) ==
    IF ~previewOk THEN NoneResult
    ELSE IF ~(listOk /\ table) THEN NoneResult
    ELSE IF ~queryOk THEN Rows(original)
    ELSE IF ~resultsOk \/ logData = <<>> THEN Rows(original)
    ELSE IF ~(RequiredColumns \subseteq DOMAIN logData[1]) THEN Rows(original)
    ELSE Applied(original, ApplyChangesFromLog(original, logData))

(* get_table_with_changes.  previewOk: preview_table_data returned the     *)
(* rows `original`; listOk: list_table_metadata answered; queryOk: the log *)
(* query succeeded with an execution id; resultsOk: get_query_results      *)
(* returned `logData`                                                      *)
GetTableWithChanges(original, table, logData, previewOk, listOk, queryOk, resultsOk) ==
    IF ~previewOk THEN NoneResult
    ELSE IF ~(listOk /\ table) THEN Rows(original)
    ELSE IF ~queryOk THEN Rows(original)
    ELSE IF ~resultsOk \/ logData = <<>> THEN Rows(original)
    ELSE IF ~(RequiredColumns \subseteq DOMAIN logData[1]) THEN Rows(original)
    ELSE Applied(original, ApplyChangesFromLog(original, logData))

(***************************************************************************)
(* Bounds and inputs.                                                      *)
(***************************************************************************)
MaxKeys == 2

MaxRows == 2

MaxLog == 2

MaxClock == 3

T(s) == StrV(s)

(* mappings handed to the codec: at most MaxKeys schema keys *)
CodecValues == {<<>>, <<"a">>, <<"b">>, <<",">>, <<"a", ",">>, <<"|", "a">>,
                <<"{", "z", "=", "1", "}">>}

(* mappings with a null value and with a key that is not of the schema *)
CodecOddInputs ==
    {Row(<<F_email>>, (F_email :> None)),
     Row(<<F_id, F_email>>, (F_id :> T(<<"1">>)) @@ (F_email :> None)),
     Row(<<<<"x">>>>, (<<"x">> :> T(<<"a">>))),
     Row(<<F_id, <<"x">>>>, (F_id :> T(<<"1">>)) @@ (<<"x">> :> T(<<"a">>)))}

CodecInputs ==
    UNION {{Row(SelectSeq(StructFields, LAMBDA f : f \in ks), val) :
                val \in [ks -> {StrV(v) : v \in CodecValues}]} :
              ks \in {K \in SUBSET FieldSet : Cardinality(K) <= MaxKeys}}
    \cup CodecOddInputs

(* JSON texts handed to the encoder that are not the text of a mapping:    *)
(* the empty text, a text json.loads rejects, the text of a list           *)
JsonTexts == {JsonEmptyText, JsonInvalid, JsonNonObject}

(* texts handed to the decoder as they are *)
RawStructs == {<<>>, <<"{", "}">>, <<",">>, <<"n", "u", "l", "l">>,
               <<"N", "U", "L", "L">>, <<" ", "n", "u", "l", "l", " ">>,
               <<"a", ",", "b">>, <<",", ",">>,
               <<"{", "i", "d", "=", "1", ",", " ", "e", "m", "a", "i", "l", "=", "a", "}">>}

TwoCols(email, id) == Row(<<F_email, F_id>>, (F_email :> email) @@ (F_id :> id))

(* rows handed to the differ *)
DifferRows == {TwoCols(T(<<"a">>), T(<<"1">>)), TwoCols(T(<<"b">>), T(<<"1">>)),
               TwoCols(None, T(<<"2">>)), TwoCols(T(<<>>), T(<<"2">>)),
               TwoCols(T(<<"a">>), IntV(1)), NotADict}

SeqsUpTo(S, n) == UNION {[1..k -> S] : k \in 0..n}

SessionLen == 8

(* str(uuid.uuid4()): 32 hexadecimal digits in five groups *)
Uuid(c) == [i \in 1..36 |-> IF i \in {9, 14, 19, 24} THEN "-" ELSE IF i = 15 THEN "4" ELSE c]

(* str(uuid.uuid4())[:8] *)
SessionId(uuid) == SubSeq(uuid, 1, Min(SessionLen, Len(uuid)))

DifferSessions == {SessionId(Uuid("a")), SessionId(Uuid("b"))}

DB == <<"d", "b">>

TABLE == <<"t">>

USER == <<"u">>

BaseRow(id, email) == Row(<<F_id, F_email>>, (F_id :> T(id)) @@ (F_email :> T(email)))

(* the table the log is kept for, as preview_table_data returns it *)
BaseTable == <<BaseRow(<<"1">>, <<"a">>), BaseRow(<<"2">>, <<"a">>)>>

EditCell(rows, i, col, v) ==
    [rows EXCEPT ![i] = Row(rows[i].cols, [rows[i].val EXCEPT ![col] = v])]

(* the edited snapshots handed to save_table_changes; one edits the id    *)
(* column, the last has a row that is not a mapping                        *)
SaveEdits == {BaseTable,
              EditCell(BaseTable, 1, F_email, T(<<"b">>)),
              EditCell(BaseTable, 1, F_id, T(<<"9">>)),
              EditCell(BaseTable, 1, F_email, T(<<"c">>)),
              <<EditCell(BaseTable, 1, F_email, T(<<"b">>))[1], NotADict>>}

SaveSession == SessionId(Uuid("c"))

(* the columns the log table's header may have: the DDL's, or those of a   *)
(* table of an older structure                                             *)
LogHeaders == {{LogColumns[i] : i \in 1..Len(LogColumns)},
               {LogColumns[i] : i \in 1..Len(LogColumns)} \ {"before", "after"}}

(* original snapshots and log rows handed to _apply_changes_from_log *)
ReconcilerOriginals ==
    {BaseTable,
     <<BaseRow(<<"1">>, <<"a">>), BaseRow(<<"1">>, <<"b">>)>>,
     <<Row(<<F_email, F_data>>, (F_email :> T(<<"a">>)) @@ (F_data :> T(<<"1">>)))>>,
     <<Row(<<>>, <<>>)>>}

LogRow(op, rid, after) == [operation |-> op, row_identifier |-> rid, before |-> <<>>, after |-> after]

LogRowInputs ==
    {LogRow(OP_UPDATE, <<"1">>, <<"1", ",", ",", ",", "b", ",", ",", ",", ",">>),
     LogRow(OP_UPDATE, <<"1">>, <<"1", ",", ",", ",", "c", ",", ",", ",", ",">>),
     LogRow(OP_UPDATE, <<"1">>, <<"1", ",", "x", ",", ",", ",", ",", ",", ",", "q">>),
     LogRow(OP_UPDATE, <<"2">>, <<"{", "i", "d", "=", "2", ",", " ", "e", "m", "a", "i", "l", "=", "z", "}">>),
     LogRow(OP_UPDATE, <<"9">>, <<"9", ",", ",", ",", "b", ",", ",", ",", ",">>),
     LogRow(OP_INSERT, <<"3">>, <<"3", ",", ",", ",", "z", ",", ",", ",", ",">>),
     LogRow(OP_INSERT, <<"1">>, <<"1", ",", ",", ",", "z", ",", ",", ",", ",">>),
     LogRow(OP_INSERT, <<"3">>, <<",", ",">>),
     LogRow(OP_DELETE, <<"1">>, <<>>),
     [row_identifier |-> <<"1">>, before |-> <<>>,
      after |-> <<"1", ",", ",", ",", "m", ",", ",", ",", ",">>]}

(***************************************************************************)
(* State.                                                                  *)
(***************************************************************************)
VARIABLES
    logTable,   \* data_changes_log is in the catalog
    blobs,      \* the blob store: key -> [header, lines]
    now,        \* the clock, in half seconds
    call,       \* the last call of the service: its inputs, the outcomes
                \* of the executor and the blob store, and its result
    codec,      \* an encode/decode run of the struct codec
    differ,     \* a run of _generate_change_logs
    recon       \* a run of _apply_changes_from_log, one log row per step

vars == <<logTable, blobs, now, call, codec, differ, recon>>

NoCall == [op |-> "none"]

IdleCodec == [pc |-> "idle"]

IdleDiffer == [pc |-> "idle"]

IdleRecon == [pc |-> "idle"]

(***************************************************************************)
(* The service: save, read, create and recreate against one database.      *)
(***************************************************************************)
Init ==
    /\ logTable = FALSE
    /\ blobs = <<>>
    /\ now = 0
    /\ call = NoCall
    /\ codec = IdleCodec
    /\ differ = IdleDiffer
    /\ recon = IdleRecon

Tick ==
    /\ now < MaxClock
    /\ now' = now + 1
    /\ UNCHANGED <<logTable, blobs, call, codec, differ, recon>>

SaveFaults == {"none", "list", "ddl", "put"}

Save ==
    \E edited \in SaveEdits, fault \in SaveFaults :
        \E r \in {SaveTableChanges(logTable, blobs, DB, TABLE, BaseTable, edited, USER, now,
                                   SaveSession, fault # "list", fault # "ddl", fault # "put")} :
           /\ logTable' = r.table
           /\ blobs' = r.blobs
           /\ call' = [op |-> "save", fault |-> fault, edited |-> edited,
                       ok |-> r.ok, msg |-> r.msg, ddl |-> r.ddl]
           /\ UNCHANGED <<now, codec, differ, recon>>

CreateFaults == {"none", "list", "ddl"}

Create ==
    \E fault \in CreateFaults :
        \E r \in {CreateChangesLogTable(logTable, fault # "list", fault # "ddl")} :
           /\ logTable' = r.table
           /\ call' = [op |-> "create", fault |-> fault, ok |-> r.ok, ddl |-> r.ddl]
           /\ UNCHANGED <<blobs, now, codec, differ, recon>>

RecreateFaults == {"none", "drop", "cleanup", "list", "ddl"}

Recreate ==
    \E fault \in RecreateFaults :
        \E r \in {RecreateChangesLogTable(logTable, blobs, DB, fault # "drop", fault # "cleanup",
                                          fault # "list", fault # "ddl")} :
           /\ logTable' = r.table
           /\ blobs' = r.blobs
           /\ call' = [op |-> "recreate", fault |-> fault, ok |-> r.ok, msg |-> r.msg,
                       ddl |-> r.ddl]
           /\ UNCHANGED <<now, codec, differ, recon>>

ReadFaults == {"none", "preview", "list", "query", "results"}

Read ==
    \E fault \in ReadFaults, header \in LogHeaders :
        \E order \in DescOrders(blobs, LogLineRefs(blobs, DB, TABLE)) :
            \E logData \in {LogRows(blobs, order, header)} :
               /\ call' = [op |-> "read", fault |-> fault, table |-> logTable,
                           logData |-> logData,
                           ret |-> GetTableWithChanges(BaseTable, logTable, logData,
                                                       fault # "preview", fault # "list",
                                                       fault # "query", fault # "results")]
               /\ UNCHANGED <<logTable, blobs, now, codec, differ, recon>>

Next == Tick \/ Save \/ Create \/ Recreate \/ Read

Spec == Init /\ [][Next]_vars

(***************************************************************************)
(* The struct codec on its own: a mapping is encoded and the encoding      *)
(* decoded, or a text is decoded as it is.                                 *)
(***************************************************************************)
InitCodec ==
    /\ logTable = FALSE
    /\ blobs = <<>>
    /\ now = 0
    /\ call = NoCall
    /\ codec \in {[pc |-> "mapping", m |-> m] : m \in CodecInputs}
                 \cup {[pc |-> "json", j |-> j] : j \in JsonTexts}
                 \cup {[pc |-> "text", s |-> s] : s \in RawStructs}
    /\ differ = IdleDiffer
    /\ recon = IdleRecon

Encode ==
    /\ codec.pc = "mapping"
    /\ codec' = [pc |-> "encoded", m |-> codec.m,
                 enc |-> ConvertJsonToStruct(JsonDumps(codec.m)).val]
    /\ UNCHANGED <<logTable, blobs, now, call, differ, recon>>

(* _convert_json_to_struct on a text that is not the text of a mapping *)
EncodeJson ==
    /\ codec.pc = "json"
    /\ \E r \in {ConvertJsonToStruct(codec.j)} :
          codec' = [pc |-> "encodedJson", j |-> codec.j, raised |-> r.raised, enc |-> r.val]
    /\ UNCHANGED <<logTable, blobs, now, call, differ, recon>>

Decode ==
    /\ codec.pc = "encoded"
    /\ codec' = [pc |-> "decoded", m |-> codec.m, enc |-> codec.enc,
                 dec |-> ConvertStructToDict(codec.enc),
                 legacy |-> ParseCommaSeparatedStruct(codec.enc)]
    /\ UNCHANGED <<logTable, blobs, now, call, differ, recon>>

DecodeText ==
    /\ codec.pc = "text"
    /\ codec' = [pc |-> "decodedText", s |-> codec.s, dec |-> ConvertStructToDict(codec.s)]
    /\ UNCHANGED <<logTable, blobs, now, call, differ, recon>>

NextCodec == Encode \/ EncodeJson \/ Decode \/ DecodeText

SpecCodec == InitCodec /\ [][NextCodec]_vars

(***************************************************************************)
(* The differ on its own: one run of _generate_change_logs on a pair of    *)
(* snapshots.                                                              *)
(***************************************************************************)
InitDiffer ==
    /\ logTable = FALSE
    /\ blobs = <<>>
    /\ now = 0
    /\ call = NoCall
    /\ codec = IdleCodec
    /\ differ \in {[pc |-> "input", original |-> o, edited |-> e] :
                      o \in SeqsUpTo(DifferRows, MaxRows), e \in SeqsUpTo(DifferRows, MaxRows)}
    /\ recon = IdleRecon

Diff ==
    /\ differ.pc = "input"
    /\ \E sid \in DifferSessions :
          differ' = [pc |-> "done", original |-> differ.original, edited |-> differ.edited,
                     callerOriginal |-> CallerList(differ.original,
                                                   Min(Len(differ.original), Len(differ.edited))),
                     callerEdited |-> CallerList(differ.edited,
                                                 Min(Len(differ.original), Len(differ.edited))),
                     ret |-> GenerateChangeLogs(DB, TABLE, differ.original, differ.edited,
                                                USER, IsoFormat(now), sid)]
    /\ UNCHANGED <<logTable, blobs, now, call, codec, recon>>

NextDiffer == Diff

SpecDiffer == InitDiffer /\ [][NextDiffer]_vars

(***************************************************************************)
(* The reconciler on its own: _apply_changes_from_log, one log row per     *)
(* step of its loop.                                                       *)
(***************************************************************************)
InitReconciler ==
    /\ logTable = FALSE
    /\ blobs = <<>>
    /\ now = 0
    /\ call = NoCall
    /\ codec = IdleCodec
    /\ differ = IdleDiffer
    /\ recon \in {[pc |-> "start", original |-> o, log |-> l] :
                     o \in ReconcilerOriginals, l \in SeqsUpTo(LogRowInputs, MaxLog)}

(* the id column is found and result_dict built; an exception leaves the   *)
(* function                                                                *)
RecStart ==
    /\ recon.pc = "start"
    /\ \E start \in {InitialIndex(recon.original)} :
          recon' = IF start.raised
                   THEN [pc |-> "raised", original |-> recon.original, log |-> recon.log,
                         heap |-> [caller |-> recon.original, shared |-> <<>>]]
                   ELSE [pc |-> "loop", original |-> recon.original, log |-> recon.log,
                         index |-> start.index, pos |-> 1,
                         heap |-> [caller |-> recon.original,
                                   shared |-> SharedRows(IF recon.original # <<>>
                                                         THEN IdColumnOf(recon.original[1])
                                                         ELSE NoColumn,
                                                         recon.original)]]
    /\ UNCHANGED <<logTable, blobs, now, call, codec, differ>>

RecStep ==
    /\ recon.pc = "loop"
    /\ recon.pos <= Len(recon.log)
    /\ \E next \in {ApplyLogRow(recon.index, recon.log[recon.pos])} :
          recon' = [recon EXCEPT !.index = next,
                                 !.pos = recon.pos + 1,
                                 !.heap = CallerStep(recon.heap, recon.log[recon.pos],
                                                     recon.index, next)]
    /\ UNCHANGED <<logTable, blobs, now, call, codec, differ>>

RecFinish ==
    /\ recon.pc = "loop"
    /\ recon.pos > Len(recon.log)
    /\ recon' = [pc |-> "done", original |-> recon.original, log |-> recon.log,
                 rows |-> IndexValues(recon.index), heap |-> recon.heap]
    /\ UNCHANGED <<logTable, blobs, now, call, codec, differ>>

(* get_table_with_changes on the snapshot and the log, every collaborator  *)
(* answering: the structure check of the first log row, then the fold      *)
RecRead ==
    /\ recon.pc = "start"
    /\ \E fault \in ReadFaults, table \in BOOLEAN :
          recon' = [pc |-> "read", original |-> recon.original, log |-> recon.log,
                    fault |-> fault, table |-> table,
                    ret |-> GetTableWithChanges(recon.original, table, recon.log,
                                                fault # "preview", fault # "list",
                                                fault # "query", fault # "results")]
    /\ UNCHANGED <<logTable, blobs, now, call, codec, differ>>

NextReconciler == RecStart \/ RecStep \/ RecFinish \/ RecRead

SpecReconciler == InitReconciler /\ [][NextReconciler]_vars

(***************************************************************************)
(* The two functions that are handed the caller's snapshots: a run of the  *)
(* differ or a run of the reconciler.                                      *)
(***************************************************************************)
InitSnapshot == InitDiffer \/ InitReconciler

NextSnapshot == Diff \/ RecStart \/ RecStep \/ RecFinish \/ RecRead

SpecSnapshot == InitSnapshot /\ [][NextSnapshot]_vars

(***************************************************************************)
(* Properties.                                                             *)
(***************************************************************************)
HasDelimiter(v) == \E i \in 1..Len(v) : v[i] \in {",", "|"}

DelimiterFree(v) == \A i \in 1..Len(v) : v[i] \notin {"|", ",", "="}

(* m with every missing schema key filled with the empty string *)
Filled(m) == [f \in FieldSet |-> IF f \in DOMAIN m.val THEN Str(m.val[f]) ELSE <<>>]

AllDicts(rows) == \A i \in 1..Len(rows) : IsDict(rows[i])

(* the positions, 1-based, at which the normalized rows differ *)
ChangedPositions(original, edited) ==
    {i \in 1..Min(Len(original), Len(edited)) :
        NormalizeRow(original[i]) # NormalizeRow(edited[i])}

(* the j-th element of a set of positions, in increasing order *)
NthOf(P, j) == CHOOSE i \in P : Cardinality({k \in P : k < i}) = j - 1

(* a read that reached the fold: the original was read, the log table is   *)
(* there, the query answered with rows that have the required columns      *)
Folded ==
    /\ call.op = "read"
    /\ call.fault = "none"
    /\ call.table
    /\ call.logData # <<>>
    /\ RequiredColumns \subseteq DOMAIN call.logData[1]

DecodedAfter(logRow) == ConvertStructToDict(logRow.after).val

(* the log row is an UPDATE of row rid that sets column c *)
Sets(logRow, rid, c) ==
    /\ logRow.operation = OP_UPDATE
    /\ logRow.row_identifier = rid
    /\ c \in DOMAIN DecodedAfter(logRow)
    /\ DecodedAfter(logRow)[c] # <<>>

(* C1: when the log read for the table holds two or more UPDATE records    *)
(* of one row that set one column to different non-empty values, the read  *)
(* returns the row with the value of the record with the latest updated_at *)
C1_MostRecentWins ==
    Folded =>
        \A p \in 1..Len(BaseTable) : \A c \in DOMAIN BaseTable[p].val :
            LET rid == Str(BaseTable[p].val[F_id])
                setters == {i \in 1..Len(call.logData) : Sets(call.logData[i], rid, c)}
                newest == {i \in setters : \A j \in setters \ {i} :
                              TextLess(call.logData[j].updated_at, call.logData[i].updated_at)}
            IN (/\ \E i \in setters, j \in setters :
                      DecodedAfter(call.logData[i])[c] # DecodedAfter(call.logData[j])[c]
                /\ newest # {})
               => \A i \in newest :
                      call.ret.rows[p].val[c] = StrV(DecodedAfter(call.logData[i])[c])

(* C2: a step that is not a recreate keeps every change record of every    *)
(* blob: the record is still in the store after the step                   *)
C2_AppendOnly ==
    [][Recreate \/ \A k \in DOMAIN blobs : \A i \in 1..Len(blobs[k].lines) :
                      \E k2 \in DOMAIN blobs' : \E j \in 1..Len(blobs'[k2].lines) :
                          blobs'[k2].lines[j] = blobs[k].lines[i]]_vars

(* C3: a mapping over the schema whose values have no "|", "," or "=" is   *)
(* decoded from its encoding as itself, the missing keys filled with ''    *)
C3_RoundTrip ==
    (/\ codec.pc = "decoded"
     /\ \A f \in DOMAIN codec.m.val : DelimiterFree(Str(codec.m.val[f])))
    => codec.dec.val = Filled(codec.m)

(* C4: a field value with commas or pipes is recovered exactly, in the     *)
(* same field, when its mapping is encoded and the encoding decoded        *)
C4_Escaping ==
    codec.pc = "decoded" =>
        \A f \in DOMAIN codec.m.val :
            HasDelimiter(Str(codec.m.val[f])) =>
                /\ f \in DOMAIN codec.dec.val
                /\ codec.dec.val[f] = Str(codec.m.val[f])

(* C5: '', '{}', ',' and 'null' decode to the empty mapping; 'NULL' does   *)
(* not                                                                     *)
C5_DegenerateDecode ==
    codec.pc = "decodedText" =>
        /\ codec.s \in {<<>>, <<"{", "}">>, <<",">>, <<"n", "u", "l", "l">>}
               => codec.dec = EmptyDict
        /\ codec.s = <<"N", "U", "L", "L">> => codec.dec # EmptyDict

C5_Witness ==
    /\ codec.pc = "decodedText"
    /\ codec.s = <<"n", "u", "l", "l">>
    /\ codec.dec = EmptyDict

(* C6: the diff of a snapshot of rows with itself is empty, and every      *)
(* record comes from a position whose rows differ after normalization      *)
C6_EqualSnapshots ==
    (differ.pc = "done" /\ AllDicts(differ.original) /\ AllDicts(differ.edited)) =>
        /\ ~differ.ret.raised
        /\ differ.original = differ.edited => differ.ret.changes = <<>>
        /\ \A j \in 1..Len(differ.ret.changes) :
              \E i \in ChangedPositions(differ.original, differ.edited) :
                  /\ differ.ret.changes[j].before = JsonDumps(differ.original[i])
                  /\ differ.ret.changes[j].after = JsonDumps(differ.edited[i])

C6_Witness ==
    /\ differ.pc = "done"
    /\ differ.original = <<TwoCols(None, T(<<"2">>))>>
    /\ differ.edited = <<TwoCols(T(<<>>), T(<<"2">>))>>
    /\ differ.ret.changes = <<>>

(* C7: the differ emits one UPDATE record for each position at which the   *)
(* normalized rows differ, in increasing position order, identified by the *)
(* stringified id of the edited row at the position                        *)
C7_PositionalDiff ==
    (differ.pc = "done" /\ AllDicts(differ.original) /\ AllDicts(differ.edited)) =>
        /\ Len(differ.ret.changes) =
               Cardinality(ChangedPositions(differ.original, differ.edited))
        /\ \A j \in 1..Len(differ.ret.changes) :
              LET i == NthOf(ChangedPositions(differ.original, differ.edited), j)
              IN /\ differ.ret.changes[j].before = JsonDumps(differ.original[i])
                 /\ differ.ret.changes[j].after = JsonDumps(differ.edited[i])
                 /\ differ.ret.changes[j].operation = OP_UPDATE
                 /\ differ.ret.changes[j].row_identifier = Str(differ.edited[i].val[F_id])

(* the two rows swapped: two records, identified by the edited rows *)
C7_Witness ==
    /\ differ.pc = "done"
    /\ differ.original = <<TwoCols(T(<<"a">>), T(<<"1">>)), TwoCols(None, T(<<"2">>))>>
    /\ differ.edited = <<TwoCols(None, T(<<"2">>)), TwoCols(T(<<"a">>), T(<<"1">>))>>
    /\ Len(differ.ret.changes) = 2
    /\ differ.ret.changes[1].row_identifier = <<"2">>
    /\ differ.ret.changes[2].row_identifier = <<"1">>

(* C8: on snapshots of different lengths the differ does not raise and     *)
(* compares the positions up to the shorter length only                    *)
C8_Truncation ==
    (/\ differ.pc = "done"
     /\ Len(differ.original) # Len(differ.edited)
     /\ differ.original # <<>> => IsDict(differ.original[1])
     /\ \A i \in 1..Min(Len(differ.original), Len(differ.edited)) :
           IsDict(differ.original[i]) /\ IsDict(differ.edited[i]))
    => /\ ~differ.ret.raised
       /\ Len(differ.ret.changes) <= Min(Len(differ.original), Len(differ.edited))
       /\ Len(differ.ret.changes) =
              Cardinality(ChangedPositions(differ.original, differ.edited))
       /\ \A j \in 1..Len(differ.ret.changes) :
             \E i \in 1..Min(Len(differ.original), Len(differ.edited)) :
                 /\ differ.ret.changes[j].before = JsonDumps(differ.original[i])
                 /\ differ.ret.changes[j].after = JsonDumps(differ.edited[i])

C8_Witness ==
    /\ differ.pc = "done"
    /\ Len(differ.original) = 2
    /\ Len(differ.edited) = 1
    /\ differ.original[2] # differ.edited[1]
    /\ ~differ.ret.raised
    /\ Len(differ.ret.changes) = 1

(* C9: a read whose original was read returns it as it is when the log     *)
(* table is not there, the log query fails, the query has no rows or no    *)
(* result, or the first log row lacks a required column                    *)
C9_Fallbacks ==
    (/\ call.op = "read"
     /\ call.fault # "preview"
     /\ \/ ~call.table
        \/ call.fault = "query"
        \/ call.fault = "results"
        \/ call.logData = <<>>
        \/ ~(RequiredColumns \subseteq DOMAIN call.logData[1]))
    => call.ret = [none |-> FALSE, rows |-> BaseTable]

(* the log has a row, of a table that lacks before and after *)
C9_Witness ==
    /\ call.op = "read"
    /\ call.fault = "none"
    /\ call.table
    /\ call.logData # <<>>
    /\ ~(RequiredColumns \subseteq DOMAIN call.logData[1])
    /\ call.ret = [none |-> FALSE, rows |-> BaseTable]

(* C10: a step of the loop on an UPDATE whose row_identifier is in the     *)
(* index sets, in that row, the existing columns whose decoded value is    *)
(* not empty, and changes nothing else                                     *)
C10_PartialMerge ==
    [][(/\ recon.pc = "loop"
        /\ recon'.pc = "loop"
        /\ Cell(recon.log[recon.pos], "operation") = OP_UPDATE
        /\ Cell(recon.log[recon.pos], "row_identifier") \in DOMAIN recon.index.rows)
       => LET rid == Cell(recon.log[recon.pos], "row_identifier")
              after == ConvertStructToDict(Cell(recon.log[recon.pos], "after")).val
              old == recon.index.rows[rid]
          IN /\ recon'.index.keys = recon.index.keys
             /\ DOMAIN recon'.index.rows = DOMAIN recon.index.rows
             /\ \A k \in DOMAIN recon.index.rows \ {rid} :
                   recon'.index.rows[k] = recon.index.rows[k]
             /\ recon'.index.rows[rid].cols = old.cols
             /\ DOMAIN recon'.index.rows[rid].val = DOMAIN old.val
             /\ \A c \in DOMAIN old.val :
                   recon'.index.rows[rid].val[c] =
                       IF c \in DOMAIN after /\ after[c] # <<>> THEN StrV(after[c])
                       ELSE old.val[c]]_vars

(* email set to b, then an UPDATE with first_name and data, which the row  *)
(* does not have, and an empty email                                       *)
C10_Witness ==
    /\ recon.pc = "loop"
    /\ recon.pos = 3
    /\ recon.original = BaseTable
    /\ recon.log[1] = LogRow(OP_UPDATE, <<"1">>, <<"1", ",", ",", ",", "b", ",", ",", ",", ",">>)
    /\ recon.log[2] = LogRow(OP_UPDATE, <<"1">>, <<"1", ",", "x", ",", ",", ",", ",", ",", ",", "q">>)
    /\ recon.index.rows[<<"1">>] = BaseRow(<<"1">>, <<"b">>)
    /\ recon.index.rows[<<"2">>] = BaseTable[2]

(* the identifier of a row of the output: its value in the id column of    *)
(* the original snapshot                                                   *)
OutputIds(original, rows) ==
    {Str(rows[j].val[IdColumnOf(original[1]).col]) :
        j \in {j \in 1..Len(rows) : IdColumnOf(original[1]).col \in DOMAIN rows[j].val}}

(* C11: when the log has a DELETE entry for a row identifier, the          *)
(* reconciled output has no row with that identifier                       *)
C11_DeleteRemoves ==
    recon.pc = "done" =>
        \A i \in 1..Len(recon.log) :
            (/\ Cell(recon.log[i], "operation") = OP_DELETE
             /\ Cell(recon.log[i], "row_identifier") # <<>>)
            => Cell(recon.log[i], "row_identifier") \notin OutputIds(recon.original, recon.rows)

(* a log row the loop skips: operation or row_identifier absent or empty *)
Malformed(logRow) == Cell(logRow, "operation") = <<>> \/ Cell(logRow, "row_identifier") = <<>>

WellFormedRows(log) == SelectSeq(log, LAMBDA logRow : ~Malformed(logRow))

(* C12: a read of a log that has a malformed row, at any position, returns *)
(* what the other rows of the log give: only the malformed row is skipped  *)
C12_MalformedSkipped ==
    (/\ recon.pc = "read"
     /\ recon.fault = "none"
     /\ recon.table
     /\ ~ApplyChangesFromLog(recon.original, <<>>).raised
     /\ \E i \in 1..Len(recon.log) : Malformed(recon.log[i]))
    => recon.ret = Rows(ApplyChangesFromLog(recon.original, WellFormedRows(recon.log)).rows)

(* a step of Save: the last call is a save and the clock did not move *)
SaveStep == call'.op = "save" /\ now' = now

(* C13: a save whose log table cannot be ensured fails and writes no blob; *)
(* a save without changes succeeds and writes no blob; any other save,     *)
(* the blob store answering, puts exactly one blob, with one line per      *)
(* change, and reports success                                             *)
C13_SaveOrder ==
    [][SaveStep =>
        LET ensured == CreateChangesLogTable(logTable, call'.fault # "list",
                                             call'.fault # "ddl").ok
            changed == ChangedPositions(BaseTable, call'.edited)
        IN /\ ~ensured => (~call'.ok /\ call'.msg = "log_table" /\ blobs' = blobs)
           /\ (ensured /\ AllDicts(call'.edited) /\ changed = {})
                  => (call'.ok /\ call'.msg = "no_changes" /\ blobs' = blobs)
           /\ (ensured /\ AllDicts(call'.edited) /\ changed # {} /\ call'.fault # "put")
                  => /\ call'.ok
                     /\ call'.msg = "saved"
                     /\ logTable'
                     /\ DOMAIN blobs' = DOMAIN blobs \cup {BlobKey(DB, now)}
                     /\ \A k \in DOMAIN blobs \ {BlobKey(DB, now)} : blobs'[k] = blobs[k]
                     /\ Len(blobs'[BlobKey(DB, now)].lines) = Cardinality(changed)
           /\ blobs' # blobs => ensured]_vars

(* a second save, in another second, after which two blobs are there *)
C13_Witness ==
    /\ call.op = "save"
    /\ call.ok
    /\ call.msg = "saved"
    /\ Cardinality(DOMAIN blobs) = 2

(* a step of Create: the last call is a create and the clock did not move *)
CreateStep == call'.op = "create" /\ now' = now

(* C14: a create_changes_log_table call on a database that has the log     *)
(* table issues no DDL and returns success, whatever the catalog's listing *)
(* answers                                                                 *)
C14_IdempotentEnsure ==
    [][(CreateStep /\ logTable) => (~call'.ddl /\ call'.ok /\ logTable')]_vars

(* a step of Recreate: the last call is a recreate and the clock did not   *)
(* move                                                                    *)
RecreateStep == call'.op = "recreate" /\ now' = now

(* C15: a recreate whose drop fails fails, deletes no blob and issues no   *)
(* CREATE; otherwise the blobs under the prefix are deleted, unless the    *)
(* cleanup fails, which does not fail the call, the CREATE is issued last  *)
(* and the call's success is that of the CREATE                            *)
C15_RecreateOrder ==
    [][RecreateStep =>
        /\ call'.fault = "drop"
               => (~call'.ok /\ ~call'.ddl /\ blobs' = blobs /\ logTable' = logTable)
        /\ call'.fault # "drop" => (call'.ddl /\ call'.ok = logTable')
        /\ call'.fault = "cleanup" => (call'.ok /\ blobs' = blobs)
        /\ call'.fault \notin {"drop", "cleanup"}
               => \A k \in DOMAIN blobs' : k[1] # DB
        /\ call'.fault = "ddl" => (~call'.ok /\ ~logTable')]_vars

(* the cleanup failed: the blobs are still there and the call succeeded *)
C15_Witness ==
    /\ call.op = "recreate"
    /\ call.fault = "cleanup"
    /\ call.ok
    /\ logTable
    /\ blobs # <<>>

(* C16: the encoding of a row, as _save_changes_to_s3 writes it to the     *)
(* before and after cells, decodes to a mapping whose keys are in the      *)
(* 8-field schema                                                          *)
C16_KeySubset ==
    codec.pc = "decoded" => DOMAIN codec.dec.val \subseteq FieldSet

(* C17: a row pair whose normalization raises (a row that is not a         *)
(* mapping) is skipped: the differ does not raise and emits the records of *)
(* the other differing positions                                           *)
C17_DiffIsolation ==
    (/\ differ.pc = "done"
     /\ differ.original # <<>>
     /\ IsDict(differ.original[1]))
    => /\ ~differ.ret.raised
       /\ Len(differ.ret.changes) =
              Cardinality({i \in ChangedPositions(differ.original, differ.edited) :
                              IsDict(differ.original[i]) /\ IsDict(differ.edited[i])})

(* the records of the call's changes are in the call's blob *)
Recorded(store, edited, t) ==
    /\ BlobKey(DB, t) \in DOMAIN store
    /\ \A i \in ChangedPositions(BaseTable, edited) :
          \E j \in 1..Len(store[BlobKey(DB, t)].lines) :
              /\ store[BlobKey(DB, t)].lines[j].row_identifier = Str(edited[i].val[F_id])
              /\ store[BlobKey(DB, t)].lines[j].after =
                     ConvertJsonToStruct(JsonDumps(edited[i])).val

(* C18: save, create and recreate end with a (success, message) pair for   *)
(* every failure of the executor or the blob store and every input, and    *)
(* the pair says success only when the effect is there: the log table      *)
(* exists and, for a save with changes, the records are in the store       *)
C18_NoExceptionCrosses ==
    [][(SaveStep \/ CreateStep \/ RecreateStep) =>
        /\ call'.ok \in BOOLEAN
        /\ call'.ok => logTable'
        /\ (SaveStep /\ call'.ok)
               => /\ AllDicts(call'.edited)
                  /\ call'.msg \in {"saved", "no_changes"}
                  /\ call'.msg = "no_changes"
                         => ChangedPositions(BaseTable, call'.edited) = {}
                  /\ call'.msg = "saved" => Recorded(blobs', call'.edited, now)
        /\ (SaveStep /\ call'.fault = "put"
              /\ ChangedPositions(BaseTable, call'.edited) # {}) => ~call'.ok
        /\ (SaveStep /\ ~AllDicts(call'.edited)) => ~call'.ok]_vars

(* put_object failed on a save with changes *)
C18_Witness ==
    /\ call.op = "save"
    /\ call.fault = "put"
    /\ call.msg = "s3"
    /\ ~call.ok

(* the failures of a read that concern only the log *)
LogOnlyFailure ==
    \/ ~recon.table
    \/ recon.fault \in {"list", "query", "results"}
    \/ recon.log = <<>>
    \/ ~(RequiredColumns \subseteq DOMAIN recon.log[1])
    \/ ApplyChangesFromLog(recon.original, recon.log).raised

(* C19: a read returns None exactly when the original could not be read,   *)
(* and the original rows when only the log failed: no table, a failed      *)
(* listing, query or result, a first row without the required columns, an  *)
(* exception in the fold                                                   *)
C19_NoneIffOriginalFailed ==
    recon.pc = "read" =>
        /\ recon.ret.none <=> recon.fault = "preview"
        /\ (recon.fault # "preview" /\ LogOnlyFailure) => recon.ret = Rows(recon.original)

(* the fold raised on an original whose first row has no column *)
C19_Witness ==
    /\ recon.pc = "read"
    /\ recon.fault = "none"
    /\ recon.table
    /\ recon.log # <<>>
    /\ RequiredColumns \subseteq DOMAIN recon.log[1]
    /\ ApplyChangesFromLog(recon.original, recon.log).raised
    /\ recon.ret = Rows(recon.original)

(* C20: the records of one invocation of the differ have the same          *)
(* updated_at, the invocation's timestamp, and the same session_id, of 8   *)
(* characters; the id of each is the digest of its database, table,        *)
(* row_identifier and that timestamp                                       *)
C20_SharedStampAndSession ==
    (differ.pc = "done" /\ ~differ.ret.raised) =>
        \A i \in 1..Len(differ.ret.changes) :
            /\ differ.ret.changes[i].updated_at = IsoFormat(now)
            /\ differ.ret.changes[i].session_id = differ.ret.changes[1].session_id
            /\ Len(differ.ret.changes[i].session_id) = SessionLen
            /\ differ.ret.changes[i].id =
                   Md5(Join(<<differ.ret.changes[i].database_name,
                              differ.ret.changes[i].table_name,
                              differ.ret.changes[i].row_identifier,
                              differ.ret.changes[1].updated_at>>, <<"_">>))

(* an invocation that emitted two records *)
C20_Witness ==
    /\ differ.pc = "done"
    /\ ~differ.ret.raised
    /\ Len(differ.ret.changes) = 2
    /\ differ.ret.changes[1].row_identifier # differ.ret.changes[2].row_identifier

(* the identifier the rule gives the row at 1-based position i: the text   *)
(* of the value of the first id-like column, else of the first column,     *)
(* else the 0-based position                                               *)
RuleColumn(cols) ==
    IF \E k \in 1..Len(cols) : IsIdLike(cols[k])
    THEN cols[CHOOSE k \in 1..Len(cols) : IsIdLike(cols[k]) /\ \A j \in 1..(k - 1) : ~IsIdLike(cols[j])]
    ELSE cols[1]

RuleId(rows, i) ==
    IF rows[i].cols = <<>> THEN IntToStr(i - 1) ELSE Str(rows[i].val[RuleColumn(rows[i].cols)])

(* C21: the reconciler indexes every row of a snapshot of mappings under   *)
(* the text of the value of its first id-like column, else of its first    *)
(* column, else under its position when the row has no column              *)
C21_IdentifierResolution ==
    (recon.pc \in {"loop", "raised"} /\ AllDicts(recon.original)) =>
        /\ recon.pc = "loop"
        /\ recon.pos = 1 =>
              \A i \in 1..Len(recon.original) :
                  RuleId(recon.original, i) \in DOMAIN recon.index.rows

(* C22: a step of the loop on an INSERT adds the decoded row under          *)
(* row_identifier, as the last row, when the identifier is not in the index *)
(* and some decoded field is not empty; it changes nothing when the         *)
(* identifier is in the index, and nothing when every decoded field is      *)
(* empty                                                                    *)
C22_InsertSemantics ==
    [][(/\ recon.pc = "loop"
        /\ recon'.pc = "loop"
        /\ Cell(recon.log[recon.pos], "operation") = OP_INSERT
        /\ Cell(recon.log[recon.pos], "row_identifier") # <<>>)
       => LET rid == Cell(recon.log[recon.pos], "row_identifier")
              after == DecodedAfter(recon.log[recon.pos])
          IN IF rid \in DOMAIN recon.index.rows \/ \A k \in DOMAIN after : after[k] = <<>>
             THEN recon'.index = recon.index
             ELSE /\ recon'.index.keys = Append(recon.index.keys, rid)
                  /\ DOMAIN recon'.index.rows = DOMAIN recon.index.rows \cup {rid}
                  /\ \A k \in DOMAIN recon.index.rows :
                        recon'.index.rows[k] = recon.index.rows[k]
                  /\ DOMAIN recon'.index.rows[rid].val = DOMAIN after
                  /\ \A c \in DOMAIN after : recon'.index.rows[rid].val[c] = StrV(after[c])]_vars

(* the slot the contract gives a schema field: empty for a missing key and *)
(* for a null, else the escaped text of the value                          *)
ContractSlot(m, f) ==
    IF f \in DOMAIN m.val /\ m.val[f].t # "none" THEN EscapeValue(m.val[f]) ELSE <<>>

(* C23: the encoding of a mapping is its 8 slots in schema order joined by *)
(* commas, keys outside the schema dropped, a missing or null schema key   *)
(* giving the empty slot; an empty mapping and a text that is not a valid  *)
(* mapping give the empty text without an exception                        *)
C23_EncodeContract ==
    /\ codec.pc = "encoded" =>
          codec.enc = IF codec.m.cols = <<>> THEN <<>>
                      ELSE Join([i \in 1..Len(StructFields) |-> ContractSlot(codec.m, StructFields[i])],
                                <<",">>)
    /\ codec.pc = "encodedJson" => (~codec.raised /\ codec.enc = <<>>)

ReadStep == call'.op = "read" /\ now' = now /\ blobs' = blobs

(* the values of the rows are not empty and have no delimiter *)
PlainRows(rows) ==
    /\ AllDicts(rows)
    /\ \A i \in 1..Len(rows) : \A c \in DOMAIN rows[i].val :
          Str(rows[i].val[c]) # <<>> /\ DelimiterFree(Str(rows[i].val[c]))

(* C25: when the only blob of the log is the one a successful save of an   *)
(* edited snapshot of plain values has just written, a read that no        *)
(* collaborator fails returns the edited snapshot, also when the edit is   *)
(* of the id column                                                        *)
C25_SaveThenRead ==
    [][(/\ call.op = "save"
        /\ call.ok
        /\ call.msg = "saved"
        /\ Cardinality(DOMAIN blobs) = 1
        /\ Len(call.edited) = Len(BaseTable)
        /\ PlainRows(call.edited)
        /\ ReadStep
        /\ call'.fault = "none"
        /\ call'.table
        /\ call'.logData # <<>>
        /\ RequiredColumns \subseteq DOMAIN call'.logData[1])
       => call'.ret = Rows(call.edited)]_vars

(* the positions, 1-based, of the rows of a snapshot that the reconciler   *)
(* indexes under rid                                                       *)
PositionsOf(original, rid) ==
    {i \in 1..Len(original) : IndexKey(IdColumnOf(original[1]), original[i], i - 1) = rid}

(* C26: the row_identifier of every record the differ emits is a key of    *)
(* the index the reconciler builds of the same original, and the row the   *)
(* index holds under it is the one of the position the record is of        *)
C26_KeyAgreement ==
    (differ.pc = "done" /\ ~differ.ret.raised) =>
        \A j \in 1..Len(differ.ret.changes) :
            /\ PositionsOf(differ.original, differ.ret.changes[j].row_identifier) # {}
            /\ \A i \in PositionsOf(differ.original, differ.ret.changes[j].row_identifier) :
                  i <= NthOf(ChangedPositions(differ.original, differ.edited), j)
            /\ NthOf(ChangedPositions(differ.original, differ.edited), j)
                   \in PositionsOf(differ.original, differ.ret.changes[j].row_identifier)

(* C27: the fold of a log that has UPDATE rows only returns as many rows   *)
(* as the original has, whatever the identifier values of the original     *)
C27_UpdatesKeepCount ==
    (/\ recon.pc = "done"
     /\ recon.log # <<>>
     /\ \A i \in 1..Len(recon.log) : Cell(recon.log[i], "operation") = OP_UPDATE)
    => Len(recon.rows) = Len(recon.original)

(* C28: two records of one invocation of the differ have different ids,    *)
(* also when their rows have the same identifier value                     *)
C28_UniqueIds ==
    (differ.pc = "done" /\ ~differ.ret.raised) =>
        \A i \in 1..Len(differ.ret.changes) : \A j \in 1..Len(differ.ret.changes) :
            i # j => differ.ret.changes[i].id # differ.ret.changes[j].id

(* C29: a recreate that reports success leaves no blob under the prefix of *)
(* the database, and a read that follows it returns the original rows      *)
C29_ResetEmptiesLog ==
    [][/\ (RecreateStep /\ call'.ok) => \A k \in DOMAIN blobs' : k[1] # DB
       /\ (call.op = "recreate" /\ call.ok /\ ReadStep /\ call'.fault # "preview")
              => call'.ret = Rows(BaseTable)]_vars

(* C30: when the rows of the original all have the same columns, every row *)
(* the reconciler returns has exactly those columns                        *)
C30_ColumnsPreserved ==
    (/\ recon.pc = "done"
     /\ \A i \in 1..Len(recon.original) :
           DOMAIN recon.original[i].val = DOMAIN recon.original[1].val)
    => \A j \in 1..Len(recon.rows) : DOMAIN recon.rows[j].val = DOMAIN recon.original[1].val
====
